---- MODULE Spec2Model ----
(***************************************************************************)
(* Binomial-lattice option pricer: option_payoff and option_prices of      *)
(* binomial_model_option_price.ipynb, as a state machine.  One call of     *)
(* option_prices is a run Enter, ForwardNode*, Terminal, BackwardNode*,    *)
(* Return; an exception ends the run in pc = "raised".  The driver         *)
(* (CallAgain) repeats a finished call with another option_species and     *)
(* the same remaining arguments, keeping the first outcome in prev.        *)
(*                                                                         *)
(* Numbers are exact rationals [n, d] in lowest terms with d > 0; the      *)
(* Python None placeholder is the record with d = 0.  The argument         *)
(* risk_free_rate is carried as exp_rate = e^risk_free_rate, a positive    *)
(* rational, and tot_time is a whole multiple of n_steps, so that          *)
(* np.exp(risk_free_rate*step_size) = exp_rate^step_size is computed       *)
(* exactly.                                                                *)
(***************************************************************************)
EXTENDS Integers, Sequences, FiniteSets, TLC

VARIABLES pc, err, args, step_size, n_steps, stock_prices, option_payoffs,
          option_values, shared, i, j, order, result, prev

vars == <<pc, err, args, step_size, n_steps, stock_prices, option_payoffs,
          option_values, shared, i, j, order, result, prev>>

locals == <<step_size, n_steps, stock_prices, option_payoffs, option_values,
            shared, i, j, order>>

\* Largest number of simulation steps a call is given.
MaxN == 3

-----------------------------------------------------------------------------
(* Exact rational arithmetic.                                              *)

Abs(x) == IF x < 0 THEN -x ELSE x

RECURSIVE GCD(_, _)
GCD(a, b) == IF b = 0 THEN a ELSE GCD(b, a % b)

Rat(n, d) ==
  LET g == GCD(Abs(n), Abs(d))
      s == IF d < 0 THEN -1 ELSE 1
  IN  [n |-> s * (n \div g), d |-> s * (d \div g)]

RNeg(a) == [n |-> -a.n, d |-> a.d]

Zero == [n |-> 0, d |-> 1]
One == [n |-> 1, d |-> 1]
None == [n |-> 0, d |-> 0]

IsNone(x) == x.d = 0

RAdd(a, b) ==
  LET g == GCD(a.d, b.d)
  IN  Rat(a.n * (b.d \div g) + b.n * (a.d \div g), (a.d \div g) * b.d)

RSub(a, b) == RAdd(a, RNeg(b))

RMul(a, b) ==
  LET g1 == GCD(Abs(a.n), b.d)
      g2 == GCD(Abs(b.n), a.d)
  IN  Rat((a.n \div g1) * (b.n \div g2), (a.d \div g2) * (b.d \div g1))

RDiv(a, b) == RMul(a, Rat(b.d, b.n))

RLt(a, b) == RSub(a, b).n < 0

RLe(a, b) == RSub(a, b).n <= 0

RECURSIVE RPow(_, _)
RPow(x, k) == IF k = 0 THEN One ELSE RMul(x, RPow(x, k - 1))

\* Python's max(a, b): the first argument unless the second is greater.
PyMax(a, b) == IF RLt(a, b) THEN b ELSE a

-----------------------------------------------------------------------------
(* option_payoff and the expressions of option_prices.                     *)

\* Mutant: an unknown option_type is priced as a put.
option_payoff_DefaultPut(option_type, asset_price, strike_price) ==
  IF option_type = "call"
    THEN [exc |-> "none", val |-> PyMax(Zero, RSub(asset_price, strike_price))]
  ELSE [exc |-> "none", val |-> PyMax(Zero, RSub(strike_price, asset_price))]

\* option_payoff: the intrinsic value, or the exception it raises.
option_payoff(option_type, asset_price, strike_price) ==
  IF option_type = "call"
    THEN [exc |-> "none", val |-> PyMax(Zero, RSub(asset_price, strike_price))]
  ELSE IF option_type = "put"
    THEN [exc |-> "none", val |-> PyMax(Zero, RSub(strike_price, asset_price))]
  ELSE [exc |-> "OptionTypeInvalid", val |-> None]

\* {i: [None for _ in range(i+1)] for i in range(n)}
NoneLattice(n) == [l \in 0..(n - 1) |-> [k \in 1..(l + 1) |-> None]]

\* Mutant: the exponents of u and v are exchanged.
StockPrice_Swapped(s0, u, v, l, k) == RMul(RMul(s0, RPow(u, k)), RPow(v, l - k))

\* stock_init_price * (u**(i-j)) * (v**(j))
StockPrice(s0, u, v, l, k) == RMul(RMul(s0, RPow(u, l - k)), RPow(v, k))

\* np.exp(risk_free_rate*step_size), with exp_rate = e^risk_free_rate and
\* step_size a whole number of periods.
NpExp(exp_rate, dt) == RPow(exp_rate, dt.n)

\* The layer whose option values are bound to the payoffs' list.
TerminalLayer(n) == n - 1

\* Mutant: the inner backward loop stops one node early.
BackwardRange_Short(n, outer) == n - outer - 2

\* range(n_steps-i-1): the number of nodes the inner backward loop visits.
BackwardRange(n, outer) == n - outer - 1

\* Mutant: the backward loop walks the layers upwards.
IRetro_Ascending(n, outer) == outer + 1

\* i_retro = n_steps-i-1
IRetro(n, outer) == n - outer - 1

\* Mutant: the backward step writes the layer it reads.
BackwardTarget_SameLayer(i_retro) == i_retro

\* The layer option_values[i_retro-1][j] = ... writes.
BackwardTarget(i_retro) == i_retro - 1

\* Mutant: the second term is not discounted.
Continuation_NoDiscount(vup, vdown, u, v, growth) ==
  RAdd(RDiv(RSub(vup, vdown), RSub(u, v)),
       RDiv(RSub(RMul(u, vdown), RMul(v, vup)), RSub(u, v)))

\* (V[i_retro][j]-V[i_retro][j+1])/(u-v)
\*   + (u*V[i_retro][j+1]-v*V[i_retro][j])/((u-v)*np.exp(r*step_size))
Continuation(vup, vdown, u, v, growth) ==
  RAdd(RDiv(RSub(vup, vdown), RSub(u, v)),
       RDiv(RSub(RMul(u, vdown), RMul(v, vup)), RMul(RSub(u, v), growth)))

\* Mutant: the final else branch is missing.
SpeciesDispatched_NoElse(option_species) == TRUE

\* if option_species == 'european' ... elif option_species == 'american'
\* ... else raise: the species for which a branch assigns a value.
SpeciesDispatched(option_species) ==
  option_species \in {"european", "american"}

\* Mutant: the american branch does not compare with the payoff.
NodeValue_NoExercise(option_species, continuation, exercise) == continuation

\* Mutant: the american branch takes the smaller of the two.
NodeValue_Min(option_species, continuation, exercise) ==
  IF option_species = "european" THEN continuation
  ELSE IF RLt(continuation, exercise) THEN continuation ELSE exercise

\* The value the european / american branch assigns.
NodeValue(option_species, continuation, exercise) ==
  IF option_species = "european" THEN continuation
  ELSE PyMax(continuation, exercise)

\* option_values[l][k] = x; a list shared with option_payoffs is one object.
Put(lattice, l, k, x) == [lattice EXCEPT ![l][k + 1] = x]

\* The next outer index of the backward loop whose inner range is not
\* empty, or -1 when the loop is over.
NextOuter(n, from) ==
  LET S == {k \in from..(n - 1) : BackwardRange(n, k) > 0}
  IN  IF S = {} THEN -1 ELSE CHOOSE k \in S : \A m \in S : k <= m

-----------------------------------------------------------------------------
(* Arguments of a call.                                                    *)

OptionTypes == {"call", "put", "forward"}
OptionSpecies == {"european", "american", "bermudan"}
Strikes == {Rat(100, 1), Rat(150, 1)}
InitPrices == {Rat(100, 1)}
\* <<u, v>>: v < 1 < u, v = 1, u < v, u = v, v < 0.
UVPairs == {<<Rat(6, 5), Rat(4, 5)>>, <<Rat(2, 1), Rat(1, 2)>>,
            <<Rat(3, 1), Rat(1, 1)>>, <<Rat(4, 5), Rat(6, 5)>>,
            <<Rat(6, 5), Rat(6, 5)>>, <<Rat(2, 1), Rat(-1, 2)>>}
\* e^risk_free_rate: zero, positive, large and negative rates.
ExpRates == {Rat(1, 1), Rat(2, 1), Rat(3, 1), Rat(1, 2)}
\* tot_time / n_steps
Periods == {1, 2}
StepCounts == (-1)..MaxN

ArgSet ==
  {[option_type |-> t, option_species |-> sp, strike_price |-> k,
    stock_init_price |-> s0, u |-> uv[1], v |-> uv[2], exp_rate |-> g,
    tot_time |-> IF n > 0 THEN dt * n ELSE dt, n_steps |-> n] :
     t \in OptionTypes, sp \in OptionSpecies, k \in Strikes,
     s0 \in InitPrices, uv \in UVPairs, g \in ExpRates, dt \in Periods,
     n \in StepCounts}

-----------------------------------------------------------------------------
(* The state machine.                                                      *)

Fresh(a) ==
  /\ pc = "call"
  /\ err = "none"
  /\ args = a
  /\ step_size = None
  /\ n_steps = a.n_steps
  /\ stock_prices = <<>>
  /\ option_payoffs = <<>>
  /\ option_values = <<>>
  /\ shared = {}
  /\ i = 0
  /\ j = 0
  /\ order = <<>>
  /\ result = <<>>

Init ==
  /\ \E a \in ArgSet : Fresh(a)
  /\ prev = <<>>

Raise(e) ==
  /\ pc' = "raised"
  /\ err' = e

\* step_size = tot_time/n_steps; n_steps += 1; the three lattices of None.
Enter ==
  /\ pc = "call"
  /\ IF args.n_steps = 0
       THEN /\ Raise("ZeroDivisionError")
            /\ UNCHANGED locals
       ELSE /\ step_size' = Rat(args.tot_time, args.n_steps)
            /\ n_steps' = n_steps + 1
            /\ stock_prices' = NoneLattice(n_steps')
            /\ option_payoffs' = NoneLattice(n_steps')
            /\ option_values' = NoneLattice(n_steps')
            /\ i' = 0
            /\ j' = 0
            /\ pc' = IF n_steps' > 0 THEN "forward" ELSE "terminal"
            /\ UNCHANGED <<err, shared, order>>
  /\ UNCHANGED <<args, result, prev>>

\* One pass of the body of the forward loops: the stock price of node
\* (i, j), then its payoff, which raises for an invalid option_type.
ForwardNode ==
  /\ pc = "forward"
  /\ LET price == StockPrice(args.stock_init_price, args.u, args.v, i, j)
         p == option_payoff(args.option_type, price, args.strike_price)
     IN  /\ stock_prices' = Put(stock_prices, i, j, price)
         /\ IF p.exc # "none"
              THEN /\ Raise(p.exc)
                   /\ UNCHANGED <<option_payoffs, i, j>>
              ELSE /\ option_payoffs' = Put(option_payoffs, i, j, p.val)
                   /\ IF j < i
                        THEN /\ j' = j + 1
                             /\ i' = i
                             /\ pc' = "forward"
                        ELSE /\ j' = 0
                             /\ i' = i + 1
                             /\ pc' = IF i + 1 < n_steps THEN "forward"
                                      ELSE "terminal"
                   /\ err' = err
  /\ UNCHANGED <<args, step_size, n_steps, option_values, shared, order,
                 result, prev>>

\* option_values[n_steps-1] = option_payoffs[n_steps-1]: the two
\* dictionaries now hold the same list at that layer.
Terminal ==
  /\ pc = "terminal"
  /\ LET last == TerminalLayer(n_steps)
     IN  IF last \notin DOMAIN option_payoffs
           THEN /\ Raise("KeyError")
                /\ UNCHANGED <<option_values, shared, order, i, j>>
           ELSE /\ option_values' =
                     [option_values EXCEPT ![last] = option_payoffs[last]]
                /\ shared' = {last}
                /\ order' = order \o [k \in 1..Len(option_payoffs[last])
                                        |-> <<last, k - 1>>]
                /\ i' = NextOuter(n_steps, 0)
                /\ j' = 0
                /\ pc' = IF NextOuter(n_steps, 0) >= 0 THEN "backward"
                         ELSE "return"
                /\ err' = err
  /\ UNCHANGED <<args, step_size, n_steps, stock_prices, option_payoffs,
                 result, prev>>

\* What one pass of the body of the backward loops does, in Python's order
\* of evaluation: the exception it raises, or the value it assigns.
BackwardOutcome ==
  LET i_retro == IRetro(n_steps, i)
      tgt == BackwardTarget(i_retro)
      fail(e) == [exc |-> e, val |-> None]
  IN  IF ~SpeciesDispatched(args.option_species)
        THEN fail("OptionSpeciesInvalid")
      ELSE IF i_retro \notin DOMAIN option_values THEN fail("KeyError")
      ELSE IF j + 2 > Len(option_values[i_retro]) THEN fail("IndexError")
      ELSE IF \/ IsNone(option_values[i_retro][j + 1])
              \/ IsNone(option_values[i_retro][j + 2])
        THEN fail("TypeError")
      ELSE IF args.u = args.v THEN fail("ZeroDivisionError")
      ELSE IF (i_retro - 1) \notin DOMAIN stock_prices THEN fail("KeyError")
      ELSE IF j + 1 > Len(stock_prices[i_retro - 1]) THEN fail("IndexError")
      ELSE IF tgt \notin DOMAIN option_values THEN fail("KeyError")
      ELSE IF j + 1 > Len(option_values[tgt]) THEN fail("IndexError")
      ELSE [exc |-> "none",
            val |-> NodeValue(args.option_species,
                      Continuation(option_values[i_retro][j + 1],
                                   option_values[i_retro][j + 2],
                                   args.u, args.v,
                                   NpExp(args.exp_rate, step_size)),
                      option_payoff(args.option_type,
                                    stock_prices[i_retro - 1][j + 1],
                                    args.strike_price).val)]

BackwardNode ==
  /\ pc = "backward"
  /\ LET tgt == BackwardTarget(IRetro(n_steps, i))
         out == BackwardOutcome
     IN  IF out.exc # "none"
           THEN /\ Raise(out.exc)
                /\ UNCHANGED <<option_values, option_payoffs, order, i, j>>
           ELSE /\ option_values' = Put(option_values, tgt, j, out.val)
                /\ option_payoffs' =
                     IF tgt \in shared
                       THEN Put(option_payoffs, tgt, j, out.val)
                       ELSE option_payoffs
                /\ order' = Append(order, <<tgt, j>>)
                /\ IF j + 1 < BackwardRange(n_steps, i)
                     THEN /\ j' = j + 1
                          /\ i' = i
                          /\ pc' = "backward"
                     ELSE /\ j' = 0
                          /\ i' = NextOuter(n_steps, i + 1)
                          /\ pc' = IF NextOuter(n_steps, i + 1) >= 0
                                     THEN "backward" ELSE "return"
                /\ err' = err
  /\ UNCHANGED <<args, step_size, n_steps, stock_prices, shared, result,
                 prev>>

\* return [stock_prices, option_payoffs, option_values]
Return ==
  /\ pc = "return"
  /\ result' = <<stock_prices, option_payoffs, option_values>>
  /\ pc' = "returned"
  /\ UNCHANGED <<err, args, locals, prev>>

\* The caller repeats a finished call with another option_species and
\* otherwise identical arguments.
CallAgain ==
  /\ pc \in {"returned", "raised"}
  /\ prev = <<>>
  /\ prev' = <<[args |-> args, pc |-> pc, err |-> err, result |-> result]>>
  /\ \E sp \in OptionSpecies \ {args.option_species} :
       /\ pc' = "call"
       /\ err' = "none"
       /\ args' = [args EXCEPT !.option_species = sp]
       /\ step_size' = None
       /\ n_steps' = args.n_steps
       /\ stock_prices' = <<>>
       /\ option_payoffs' = <<>>
       /\ option_values' = <<>>
       /\ shared' = {}
       /\ i' = 0
       /\ j' = 0
       /\ order' = <<>>
       /\ result' = <<>>

Next ==
  \/ Enter
  \/ ForwardNode
  \/ Terminal
  \/ BackwardNode
  \/ Return
  \/ CallAgain

Spec == Init /\ [][Next]_vars

-----------------------------------------------------------------------------
(* Vocabulary of the properties.                                           *)

ValidKind == args.option_type \in {"call", "put"}
ValidStyle == args.option_species \in {"european", "american"}
Finished == pc \in {"returned", "raised"}

\* The nodes (l, k) of a lattice of N steps.
Nodes(N) == {lk \in (0..N) \X (0..N) : lk[2] <= lk[1]}

\* Node (l, k) of a lattice.
At(lattice, l, k) == lattice[l][k + 1]

Logged == {order[p] : p \in 1..Len(order)}

\* exp(risk_free_rate * tot_time / n_steps) of the current call.
Growth == RPow(args.exp_rate, args.tot_time \div args.n_steps)

AllNone(lattice) ==
  \A l \in DOMAIN lattice : \A k \in DOMAIN lattice[l] : IsNone(lattice[l][k])

\* The running call follows a returned call with the other species.
Paired(first, second) ==
  /\ pc = "returned"
  /\ prev # <<>>
  /\ prev[1].pc = "returned"
  /\ prev[1].args.option_species = first
  /\ args.option_species = second

\* max(0, s - strike) for a call, max(0, strike - s) for a put.
Intrinsic(s) ==
  LET d == IF args.option_type = "call" THEN RSub(s, args.strike_price)
           ELSE RSub(args.strike_price, s)
  IN  IF d.n > 0 THEN d ELSE Zero

-----------------------------------------------------------------------------
(* Properties.                                                             *)

\* C1 (terminal equality): a call with n_steps = N >= 1 that returns gives
\* value_lattice[N][k] = payoff_lattice[N][k] for every k in 0..N, layer N
\* of the payoff lattice still holds the payoffs of the layer's stock
\* prices, and the only assignments to layer N of the value lattice are
\* the N + 1 of the terminal binding: no backward step wrote there.
C1_TerminalEquality ==
  (pc = "returned" /\ args.n_steps >= 1) =>
    LET N == args.n_steps
    IN  /\ \A k \in 0..N : At(result[3], N, k) = At(result[2], N, k)
        /\ \A k \in 0..N : At(result[2], N, k) = Intrinsic(At(result[1], N, k))
        /\ \A p \in 1..Len(order) : order[p][1] = N => p <= N + 1

\* A returned call of two or more steps whose backward induction assigned
\* nodes below the terminal layer.
C1_Witness ==
  /\ pc = "returned"
  /\ args.n_steps >= 2
  /\ Len(order) > args.n_steps + 1
  /\ At(result[3], args.n_steps, args.n_steps).n > 0

\* C2 as stated: after a european and an american call with otherwise
\* identical arguments have both returned, the american value is at least
\* the european value at every node, whatever u # v and the rate are.
C2_AmericanDominatesAnyRate ==
  Paired("european", "american") =>
    \A lk \in Nodes(args.n_steps) :
      RLe(At(prev[1].result[3], lk[1], lk[2]), At(result[3], lk[1], lk[2]))

\* exp(r * tot_time / n_steps) lies between v and u: 0 <= q <= 1.
RiskNeutral ==
  \/ RLe(args.v, Growth) /\ RLe(Growth, args.u)
  \/ RLe(args.u, Growth) /\ RLe(Growth, args.v)

\* C2 (amended): the american value is at least the european value at
\* every node when exp(r * tot_time / n_steps) lies between v and u.
C2_AmericanDominates ==
  (Paired("european", "american") /\ RiskNeutral) =>
    \A lk \in Nodes(args.n_steps) :
      RLe(At(prev[1].result[3], lk[1], lk[2]), At(result[3], lk[1], lk[2]))

\* A risk-neutral pair of calls with v < exp(r*dt) < u in which early
\* exercise makes the american option worth strictly more today.
C2_Witness ==
  /\ Paired("european", "american")
  /\ RLt(args.v, Growth)
  /\ RLt(Growth, args.u)
  /\ RLt(At(prev[1].result[3], 0, 0), At(result[3], 0, 0))

\* C3 (degenerate tree): a call with n_steps = 0 raises nothing, and once
\* it is over it has returned three lattices of the single layer 0 with the
\* single node S0, payoff(kind, S0, strike), payoff(kind, S0, strike),
\* without a backward step.
C3_DegenerateTree ==
  (args.n_steps = 0 /\ ValidKind /\ ValidStyle /\ args.u # args.v) =>
    /\ pc # "raised"
    /\ pc = "returned" =>
         /\ \A m \in 1..3 : DOMAIN result[m] = {0} /\ Len(result[m][0]) = 1
         /\ At(result[1], 0, 0) = args.stock_init_price
         /\ At(result[2], 0, 0) = Intrinsic(args.stock_init_price)
         /\ At(result[3], 0, 0) = Intrinsic(args.stock_init_price)
         /\ Len(order) = 1

\* C4 as stated: a call with n_steps >= 1 and an option_type that is
\* neither call nor put, whatever option_species is, never gets past the
\* forward pass, and when it has raised, the error is OptionTypeInvalid,
\* no node of any of the three lattices holds a computed value, nothing was
\* assigned by the backward induction and nothing is returned.
C4_InvalidKindNothingComputed ==
  (args.n_steps >= 1 /\ ~ValidKind) =>
    /\ pc \in {"call", "forward", "raised"}
    /\ order = <<>>
    /\ result = <<>>
    /\ pc = "raised" =>
         /\ err = "OptionTypeInvalid"
         /\ AllNone(stock_prices)
         /\ AllNone(option_payoffs)
         /\ AllNone(option_values)

\* C4 (amended): such a call raises OptionTypeInvalid in the first pass of
\* the forward loop, after stock_prices[0][0] = S0 was assigned: that is
\* the only computed node, no payoff or option-value node is computed,
\* the backward induction has not started and nothing is returned.
C4_InvalidKind ==
  (args.n_steps >= 1 /\ ~ValidKind) =>
    /\ pc \in {"call", "forward", "raised"}
    /\ pc = "forward" => i = 0 /\ j = 0 /\ AllNone(stock_prices)
    /\ order = <<>>
    /\ result = <<>>
    /\ pc = "raised" =>
         /\ err = "OptionTypeInvalid"
         /\ At(stock_prices, 0, 0) = args.stock_init_price
         /\ \A lk \in Nodes(args.n_steps) \ {<<0, 0>>} :
              IsNone(At(stock_prices, lk[1], lk[2]))
         /\ AllNone(option_payoffs)
         /\ AllNone(option_values)

\* A call with an invalid kind and an invalid species, and u = v, that
\* has raised OptionTypeInvalid.
C4_Witness ==
  /\ pc = "raised"
  /\ err = "OptionTypeInvalid"
  /\ args.n_steps >= 2
  /\ ~ValidStyle
  /\ args.u = args.v

\* C5 (invalid style): a call with a valid kind, n_steps >= 1, u # v and an
\* option_species that is neither european nor american never reaches the
\* return statement, assigns no option-value node below the terminal
\* layer, and when it is over it has raised OptionSpeciesInvalid.
C5_InvalidStyle ==
  (ValidKind /\ args.n_steps >= 1 /\ args.u # args.v /\ ~ValidStyle) =>
    /\ pc \notin {"return", "returned"}
    /\ result = <<>>
    /\ \A lk \in Logged : lk[1] = args.n_steps
    /\ \A l \in DOMAIN option_values :
         l < args.n_steps => \A k \in 0..l : IsNone(At(option_values, l, k))
    /\ pc = "raised" => err = "OptionSpeciesInvalid"

\* A call with an invalid species that got through the forward pass and
\* the terminal binding, and then raised.
C5_Witness ==
  /\ pc = "raised"
  /\ err = "OptionSpeciesInvalid"
  /\ ValidKind
  /\ args.n_steps >= 2
  /\ Len(order) = args.n_steps + 1

\* C6 (all-or-nothing result shape): nothing is returned before the return
\* statement or by a call that raised; a call that is not over stands at a
\* statement of the function, its loops at a node of the lattice; and a
\* call that returned gives three lattices keyed by
\* exactly 0..n_steps, layer l a sequence of exactly l + 1 entries, none of
\* them the placeholder None.
C6_ResultShape ==
  /\ pc # "returned" => result = <<>>
  /\ pc = "raised" <=> err # "none"
  /\ ~Finished => pc \in {"call", "forward", "terminal", "backward", "return"}
  /\ pc = "forward" => <<i, j>> \in Nodes(args.n_steps)
  /\ pc = "backward" => <<n_steps - 2 - i, j>> \in Nodes(args.n_steps)
  /\ pc = "returned" =>
       /\ Len(result) = 3
       /\ \A m \in 1..3 :
            /\ DOMAIN result[m] = 0..args.n_steps
            /\ \A l \in 0..args.n_steps :
                 /\ DOMAIN result[m][l] = 1..(l + 1)
                 /\ \A k \in 0..l : ~IsNone(At(result[m], l, k))

\* A call of two or more steps that returned after the call with the same
\* arguments but an unknown species raised.
C6_Witness ==
  /\ pc = "returned"
  /\ args.n_steps >= 2
  /\ prev # <<>>
  /\ prev[1].pc = "raised"
  /\ prev[1].result = <<>>

\* C7 (non-negativity, american): every node of the value lattice an
\* american call returns is >= 0, whatever u, v and the rate are.
C7_AmericanNonNegative ==
  (pc = "returned" /\ args.option_species = "american") =>
    \A lk \in Nodes(args.n_steps) : At(result[3], lk[1], lk[2]).n >= 0

\* An american call that returned although the european call with the same
\* arguments returned a negative value at some node.
C7_Witness ==
  /\ Paired("european", "american")
  /\ \E lk \in Nodes(args.n_steps) :
       At(prev[1].result[3], lk[1], lk[2]).n < 0

\* C8 (forward pass): a call that returns gives stock_lattice[l][k] =
\* S0 * u^(l-k) * v^k and payoff_lattice[l][k] = max(0, stock - strike) for
\* a call, max(0, strike - stock) for a put, at every node; a european and
\* an american call with the same arguments return the same stock and
\* payoff lattices; and put, strike 100, S0 100, u 6/5, v 4/5, N 2 gives
\* stock [100], [120, 80], [144, 96, 64] and payoff [0], [0, 20], [0, 4, 36].
C8_ForwardPass ==
  /\ pc = "returned" =>
       \A lk \in Nodes(args.n_steps) :
         /\ At(result[1], lk[1], lk[2]) =
              RMul(args.stock_init_price,
                   RMul(RPow(args.u, lk[1] - lk[2]), RPow(args.v, lk[2])))
         /\ At(result[2], lk[1], lk[2]) =
              Intrinsic(At(result[1], lk[1], lk[2]))
  /\ (pc = "returned" /\ prev # <<>> /\ prev[1].pc = "returned") =>
       /\ prev[1].result[1] = result[1]
       /\ prev[1].result[2] = result[2]
  /\ ( /\ pc = "returned"
       /\ args.option_type = "put"
       /\ args.strike_price = Rat(100, 1)
       /\ args.stock_init_price = Rat(100, 1)
       /\ args.u = Rat(6, 5)
       /\ args.v = Rat(4, 5)
       /\ args.n_steps = 2 ) =>
       /\ result[1][0] = <<Rat(100, 1)>>
       /\ result[1][1] = <<Rat(120, 1), Rat(80, 1)>>
       /\ result[1][2] = <<Rat(144, 1), Rat(96, 1), Rat(64, 1)>>
       /\ result[2][0] = <<Zero>>
       /\ result[2][1] = <<Zero, Rat(20, 1)>>
       /\ result[2][2] = <<Zero, Rat(4, 1), Rat(36, 1)>>

\* The put of the example, priced european and then american.
C8_Witness ==
  /\ Paired("european", "american")
  /\ args.option_type = "put"
  /\ args.strike_price = Rat(100, 1)
  /\ args.u = Rat(6, 5)
  /\ args.v = Rat(4, 5)
  /\ args.n_steps = 2

\* The state part of C9: the nodes of the value lattice are assigned layer
\* by layer in descending order, layer N first; no node is assigned twice;
\* a node holds a value exactly if it was assigned; a backward step finds
\* both values it reads, (i_retro, j) and (i_retro, j+1), assigned already
\* and never fails on a None; and a call that returns has assigned every
\* node exactly once.
AssignedInOrder ==
  /\ \A p, q \in 1..Len(order) :
       p < q => /\ order[p] # order[q]
                /\ order[p][1] >= order[q][1]
  /\ \A l \in DOMAIN option_values : \A k \in 0..l :
       ~IsNone(At(option_values, l, k)) <=> <<l, k>> \in Logged
  /\ err # "TypeError"
  /\ (pc = "backward" /\ ValidStyle) =>
       /\ <<n_steps - 1 - i, j>> \in Logged
       /\ <<n_steps - 1 - i, j + 1>> \in Logged
       /\ <<n_steps - 2 - i, j>> \notin Logged
       /\ \A k \in 0..(j - 1) : <<n_steps - 2 - i, k>> \in Logged
  /\ (pc \in {"return", "returned"} /\ args.n_steps >= 1) =>
       /\ Logged = Nodes(args.n_steps)
       /\ Len(order) = Cardinality(Nodes(args.n_steps))
       /\ order[1][1] = args.n_steps
       /\ order[Len(order)] = <<0, 0>>

\* The step part of C9: within a call a node of the value lattice that
\* holds a value keeps it, and a backward step changes no node of the value
\* lattice but (i_retro - 1, j).
WrittenOnce ==
  pc' # "call" =>
    /\ \A l \in DOMAIN option_values : \A k \in 0..l :
         ~IsNone(At(option_values, l, k)) =>
           At(option_values', l, k) = At(option_values, l, k)
    /\ pc = "backward" =>
         \A l \in DOMAIN option_values : \A k \in 0..l :
           At(option_values', l, k) # At(option_values, l, k) =>
             l = n_steps - 2 - i /\ k = j

\* C9 (backward-induction ordering): the layers of the value lattice are
\* filled in strictly descending order, layer N from the payoffs, then
\* N-1, ..., 0; every node is assigned exactly once and never overwritten;
\* each backward step for node (i-1, j) reads (i, j) and (i, j+1) only
\* after both were assigned, and writes node (i-1, j) only.
C9_BackwardOrdering == []AssignedInOrder /\ [][WrittenOnce]_vars

\* A call of three or more steps in the middle of its backward induction:
\* layer N - 1 is complete, layer N - 2 is partly assigned.
C9_Witness ==
  /\ pc = "backward"
  /\ args.n_steps >= 3
  /\ i = 1
  /\ j = 1

\* The discounted risk-neutral expectation (q*up + (1-q)*down) / R,
\* q = (R - v) / (u - v).
Expectation(up, down) ==
  LET q == RDiv(RSub(Growth, args.v), RSub(args.u, args.v))
  IN  RDiv(RAdd(RMul(q, up), RMul(RSub(One, q), down)), Growth)

\* C10 (risk-neutral recurrence): every node (l, k) a backward step has
\* assigned holds (q*V[l+1][k] + (1-q)*V[l+1][k+1]) / R in a european call,
\* and the larger of that and the payoff of the stock price at (l, k)
\* itself in an american call.
C10_RiskNeutralRecurrence ==
  \A lk \in Logged :
    lk[1] < args.n_steps =>
      LET e == Expectation(At(option_values, lk[1] + 1, lk[2]),
                           At(option_values, lk[1] + 1, lk[2] + 1))
          x == Intrinsic(At(stock_prices, lk[1], lk[2]))
          w == At(option_values, lk[1], lk[2])
      IN  /\ args.option_species = "european" => w = e
          /\ args.option_species = "american" =>
               \/ w = e /\ RLe(x, e)
               \/ w = x /\ RLe(e, x)

\* An american call with a nonzero rate that returned, with one node
\* exercised early and another one held.
C10_Witness ==
  /\ pc = "returned"
  /\ args.option_species = "american"
  /\ Growth # One
  /\ \E a, b \in Nodes(args.n_steps - 1) :
       /\ At(result[3], a[1], a[2]) = Intrinsic(At(result[1], a[1], a[2]))
       /\ At(result[3], a[1], a[2])
            # Expectation(At(result[3], a[1] + 1, a[2]),
                          At(result[3], a[1] + 1, a[2] + 1))
       /\ RLt(Intrinsic(At(result[1], b[1], b[2])), At(result[3], b[1], b[2]))

====
